---- MODULE Spec2Model ----
(***************************************************************************)
(* parser-potato: the streaming ingestion pipeline of app/api/upload.py,   *)
(* app/services/file_parser.py and app/services/data_loader.py over the    *)
(* relational store declared in app/models and app/database.py.            *)
(*                                                                         *)
(* Python values are tagged: <<"str", s>>, <<"num", n>>, <<"none">> and    *)
(* <<"datetime", ...>>, so that None, text and numbers stay distinct.      *)
(* A raw record (dict) is a function from its keys to tagged values.       *)
(***************************************************************************)
EXTENDS Integers, Sequences, FiniteSets, TLC

\* ------------------------------------------------------------------ bounds
\* Longest uploaded file, in records / lines.
MaxRecords == 3
\* FileParserService.CHUNK_SIZE is 1000; the model runs the same chunker
\* with a small chunk size.
CHUNK_SIZE == 2
\* Number of uploads started in one behaviour of the one-worker
\* specification, and of the two-worker specification.
MaxUploads == 2
MaxConcUploads == 2
\* Number of uploads a client makes in a row in the small-file specification.
MaxSeqUploads == 3
\* Number of data rows of a CSV text decoded by a direct call.
MaxCsvRows == 2
\* Longest record sequence and largest chunk size of a direct call of
\* chunk_records.
MaxChunkInput == 5
MaxChunkSize == 3

\* ------------------------------------------------------- program constants
\* file_parser.py:86  line[:50]
LinePrefixLen == 50
\* upload.py:103  all_errors[:100]
ErrorCap == 100

\* ------------------------------------------------------------ Python values
None == <<"none">>
S(s) == <<"str", s>>
N(n) == <<"num", n>>
IsStr(v) == v[1] = "str"
IsNum(v) == v[1] = "num"

Min(a, b) == IF a < b THEN a ELSE b

\* dict.get(key) and dict.get(key, default)
Get(record, key) == IF key \in DOMAIN record THEN record[key] ELSE None
GetD(record, key, default) == IF key \in DOMAIN record THEN record[key] ELSE default

\* bool(v) of a tagged value: None, "" and 0 are falsy
Truthy(v) ==
    CASE v[1] = "none" -> FALSE
      [] v[1] = "str" -> v[2] # ""
      [] v[1] = "num" -> v[2] # 0
      [] OTHER -> TRUE

\* ------------------------------------------------------------------ strings
CharAt(s, i) == SubSeq(s, i, i)

UpperLetters == "ABCDEFGHIJKLMNOPQRSTUVWXYZ"
LowerLetters == "abcdefghijklmnopqrstuvwxyz"
LowerChar(c) ==
    LET at == {i \in 1..Len(UpperLetters) : CharAt(UpperLetters, i) = c}
    IN IF at = {} THEN c ELSE CharAt(LowerLetters, CHOOSE i \in at : TRUE)

RECURSIVE Lower(_)
Lower(s) == IF Len(s) = 0 THEN "" ELSE LowerChar(CharAt(s, 1)) \o Lower(SubSeq(s, 2, Len(s)))

EndsWith(s, suffix) ==
    /\ Len(s) >= Len(suffix)
    /\ SubSeq(s, Len(s) - Len(suffix) + 1, Len(s)) = suffix

RECURSIVE LStrip(_)
LStrip(s) == IF Len(s) > 0 /\ CharAt(s, 1) = " " THEN LStrip(SubSeq(s, 2, Len(s))) ELSE s
RECURSIVE RStrip(_)
RStrip(s) == IF Len(s) > 0 /\ CharAt(s, Len(s)) = " " THEN RStrip(SubSeq(s, 1, Len(s) - 1)) ELSE s
\* str.strip()
Strip(s) == LStrip(RStrip(s))

\* s[:n]
Prefix(s, n) == SubSeq(s, 1, Min(n, Len(s)))

IsDigit(c) == c \in {"0", "1", "2", "3", "4", "5", "6", "7", "8", "9"}

\* --------------------------------------------------------------- file type
\* A faulty variant: whatever is not CSV is taken for JSON.
DetectJsonByDefault(filename) == IF EndsWith(Lower(filename), ".csv") THEN "csv" ELSE "json"
\* FileParserService.detect_file_type: 'csv', 'json', or ValueError
detect_file_type(filename) ==
    IF EndsWith(Lower(filename), ".csv") THEN "csv"
    ELSE IF EndsWith(Lower(filename), ".json") THEN "json"
    ELSE "ValueError"

UnsupportedMsg == "Unsupported file type. Only CSV and JSON are supported."

\* ------------------------------------------------------------------ decoding
\* The outcome of a record generator: the records it yields, in order, and
\* the exception that ends it (NoError when it ends normally).
NoError == <<>>
Yield(records, error) == [records |-> records, error |-> error]

\* The last column whose stripped name is k: in the dict comprehension a
\* later column of the same stripped name overwrites an earlier one.
CsvColumn(header, k) ==
    CHOOSE i \in 1..Len(header) :
        /\ Strip(header[i]) = k
        /\ \A j \in 1..Len(header) : Strip(header[j]) = k => j <= i
\* The value csv.DictReader gives column i of a row: the cell, or None
\* (restval) when the row is too short to have it; `v.strip() if v else None`
CsvValue(cells, i) ==
    IF i <= Len(cells) /\ cells[i] # "" THEN S(Strip(cells[i])) ELSE None

\* A faulty variant of the cleaning: empty cells are removed from the row.
CleanCsvRowDroppingEmpty(header, cells) ==
    LET keys == {Strip(header[i]) : i \in 1..Len(header)}
        filled == {k \in keys : CsvValue(cells, CsvColumn(header, k)) # None}
    IN [k \in filled |-> CsvValue(cells, CsvColumn(header, k))]
\* csv.DictReader row -> cleaned_row: keys stripped, empty cells become None
CleanCsvRow(header, cells) ==
    LET keys == {Strip(header[i]) : i \in 1..Len(header)}
    IN [k \in keys |-> CsvValue(cells, CsvColumn(header, k))]

\* for row in reader: yield cleaned_row. csv.DictReader skips the rows without
\* any cell (blank lines); a row with more cells than the header has carries
\* them under the key None, on which k.strip() raises AttributeError.
RECURSIVE CsvRecords(_, _)
CsvRecords(header, rows) ==
    IF rows = <<>> THEN Yield(<<>>, NoError)
    ELSE IF Head(rows) = <<>> THEN CsvRecords(header, Tail(rows))
    ELSE IF Len(Head(rows)) > Len(header) THEN Yield(<<>>, <<"AttributeError">>)
    ELSE LET rest == CsvRecords(header, Tail(rows))
         IN Yield(<<CleanCsvRow(header, Head(rows))>> \o rest.records, rest.error)

parse_csv_streaming(content) ==
    IF ~content.utf8 THEN Yield(<<>>, <<"UnicodeDecodeError">>)
    ELSE CsvRecords(content.header, content.rows)

\* The non-blank lines of an NDJSON text, in order.
RECURSIVE NonBlank(_)
NonBlank(lines) ==
    IF lines = <<>> THEN <<>>
    ELSE IF Head(lines).j = "blank" THEN NonBlank(Tail(lines))
    ELSE <<Head(lines)>> \o NonBlank(Tail(lines))

\* The records of the lines before the first malformed one.
RECURSIVE GoodPrefix(_)
GoodPrefix(lines) ==
    IF lines = <<>> \/ Head(lines).j = "bad" THEN <<>>
    ELSE <<Head(lines).rec>> \o GoodPrefix(Tail(lines))

FirstBad(lines) ==
    LET bad == {i \in 1..Len(lines) : lines[i].j = "bad"}
    IN IF bad = {} THEN 0 ELSE CHOOSE i \in bad : \A k \in bad : i <= k

\* A faulty variant of the message: the line left uncut.
InvalidJsonLineWhole(line) == <<"ValueError", "Invalid JSON line: ", Strip(line), "...">>
\* raise ValueError(f"Invalid JSON line: {line[:50]}... Error: ...")
InvalidJsonLine(line) == <<"ValueError", "Invalid JSON line: ", Prefix(Strip(line), LinePrefixLen), "...">>

\* FileParserService.parse_json_streaming. A document is either one JSON
\* array (doc = "array") or text lines (doc = "lines"), each line a JSON
\* object, blank, or malformed. A text of exactly one object line parses as a
\* whole (the single-object branch); any other line text fails json.loads as a
\* whole and is read as NDJSON.
parse_json_streaming(content) ==
    IF ~content.utf8 THEN Yield(<<>>, <<"UnicodeDecodeError">>)
    ELSE IF content.doc = "array" THEN Yield(content.rows, NoError)
    ELSE LET lines == NonBlank(content.rows)
             b == FirstBad(lines)
         IN IF Len(lines) = 1 /\ lines[1].j = "obj" THEN Yield(<<lines[1].rec>>, NoError)
            ELSE IF b = 0 THEN Yield(GoodPrefix(lines), NoError)
            ELSE Yield(GoodPrefix(lines), InvalidJsonLine(lines[b].text))

\* FileParserService.parse_file
parse_file(file) ==
    LET file_type == detect_file_type(file.filename)
    IN IF file_type = "csv" THEN parse_csv_streaming(file.content)
       ELSE IF file_type = "json" THEN parse_json_streaming(file.content)
       ELSE Yield(<<>>, <<"ValueError", UnsupportedMsg>>)

\* A faulty variant of the chunker: the records left after the last full
\* chunk are never emitted.
RECURSIVE ChunkRecordsNoRemainder(_, _)
ChunkRecordsNoRemainder(records, chunk_size) ==
    IF Len(records) >= chunk_size
    THEN <<SubSeq(records, 1, chunk_size)>>
            \o ChunkRecordsNoRemainder(SubSeq(records, chunk_size + 1, Len(records)), chunk_size)
    ELSE <<>>
\* FileParserService.chunk_records over a finite record sequence: the chunks
\* in emission order.
RECURSIVE chunk_records(_, _)
chunk_records(records, chunk_size) ==
    IF records = <<>> THEN <<>>
    ELSE IF Len(records) >= chunk_size
         THEN <<SubSeq(records, 1, chunk_size)>>
                 \o chunk_records(SubSeq(records, chunk_size + 1, Len(records)), chunk_size)
         ELSE <<records>>

\* The chunks the chunker emits for a record generator: when the generator
\* raises, the chunk being filled is never emitted.
ChunksEmitted(parsed) ==
    LET all == chunk_records(parsed.records, CHUNK_SIZE)
    IN IF parsed.error # NoError /\ all # <<>> /\ Len(all[Len(all)]) < CHUNK_SIZE
       THEN SubSeq(all, 1, Len(all) - 1)
       ELSE all

\* ---------------------------------------------------------- classification
\* A faulty variant of the classifier: the order rule is tried before the
\* order item rule.
ClassifyOrderBeforeItem(record) ==
    LET keys == DOMAIN record
    IN IF "customer_id" \in keys /\ "email" \in keys
          /\ "order_id" \notin keys /\ "product_id" \notin keys
       THEN "customer"
       ELSE IF "product_id" \in keys /\ "price" \in keys
               /\ "customer_id" \notin keys /\ "order_id" \notin keys
       THEN "product"
       ELSE IF "order_id" \in keys /\ "customer_id" \in keys /\ "order_date" \in keys
       THEN "order"
       ELSE IF "order_id" \in keys /\ "product_id" \in keys /\ "quantity" \in keys
       THEN "order_item"
       ELSE "None"
\* DataLoaderService.identify_table_type; "None" is Python's None
identify_table_type(record) ==
    LET keys == DOMAIN record
    IN IF "customer_id" \in keys /\ "email" \in keys
          /\ "order_id" \notin keys /\ "product_id" \notin keys
       THEN "customer"
       ELSE IF "product_id" \in keys /\ "price" \in keys
               /\ "customer_id" \notin keys /\ "order_id" \notin keys
       THEN "product"
       ELSE IF "order_id" \in keys /\ "product_id" \in keys /\ "quantity" \in keys
       THEN "order_item"
       ELSE IF "order_id" \in keys /\ "customer_id" \in keys /\ "order_date" \in keys
       THEN "order"
       ELSE "None"

\* ------------------------------------------------------------- conversions
\* The outcome of a conversion: a value, or the exception it raises.
Ok(v) == [ok |-> TRUE, val |-> v]
Raise(e) == [ok |-> FALSE, val |-> e]

DigitVal(c) == CHOOSE d \in 0..9 : CharAt("0123456789", d + 1) = c
AllDigits(s) == Len(s) > 0 /\ \A i \in 1..Len(s) : IsDigit(CharAt(s, i))
RECURSIVE DigitsVal(_)
DigitsVal(s) == IF Len(s) = 0 THEN 0
                ELSE 10 * DigitsVal(SubSeq(s, 1, Len(s) - 1)) + DigitVal(CharAt(s, Len(s)))

\* Numbers of the model are integers; numeric text is an optionally signed
\* digit string.
IsNumeral(s) ==
    \/ AllDigits(s)
    \/ Len(s) > 1 /\ CharAt(s, 1) = "-" /\ AllDigits(SubSeq(s, 2, Len(s)))
NumeralVal(s) == IF CharAt(s, 1) = "-" THEN 0 - DigitsVal(SubSeq(s, 2, Len(s))) ELSE DigitsVal(s)

\* float(v) and int(v)
ToNumber(v) ==
    CASE IsNum(v) -> Ok(v[2])
      [] IsStr(v) -> IF IsNumeral(Strip(v[2])) THEN Ok(NumeralVal(Strip(v[2]))) ELSE Raise("ValueError")
      [] OTHER -> Raise("TypeError")

\* datetime.strptime(s, fmt) for the four formats of prepare_order_data, by
\* shape: d is a digit, any other character stands for itself.
Shaped(s, shape) ==
    /\ Len(s) = Len(shape)
    /\ \A i \in 1..Len(s) :
         IF CharAt(shape, i) = "d" THEN IsDigit(CharAt(s, i)) ELSE CharAt(s, i) = CharAt(shape, i)
DateTime(y, m, d, hms) == <<"datetime", y, m, d, hms>>
ParseOrderDate(s) ==
    IF Shaped(s, "dddd-dd-dd dd:dd:dd")
    THEN DateTime(SubSeq(s, 1, 4), SubSeq(s, 6, 7), SubSeq(s, 9, 10), SubSeq(s, 12, 19))
    ELSE IF Shaped(s, "dddd-dd-dd")
    THEN DateTime(SubSeq(s, 1, 4), SubSeq(s, 6, 7), SubSeq(s, 9, 10), "00:00:00")
    ELSE IF Shaped(s, "dddd/dd/dd")
    THEN DateTime(SubSeq(s, 1, 4), SubSeq(s, 6, 7), SubSeq(s, 9, 10), "00:00:00")
    ELSE IF Shaped(s, "dd/dd/dddd")
    THEN DateTime(SubSeq(s, 7, 10), SubSeq(s, 1, 2), SubSeq(s, 4, 5), "00:00:00")
    ELSE S(s)

\* ---------------------------------------------------------------- schemas
\* Field(..., min_length, max_length) on a str field
StrField(v, lo, hi) == IsStr(v) /\ Len(v[2]) >= lo /\ Len(v[2]) <= hi
\* Optional[str] = Field(None, max_length)
OptStrField(v, hi) == v = None \/ (IsStr(v) /\ Len(v[2]) <= hi)
OptText(v) == v = None \/ IsStr(v)

\* EmailStr: one "@" with text on both sides and a dot in the domain
ValidEmail(s) ==
    LET ats == {i \in 1..Len(s) : CharAt(s, i) = "@"}
    IN /\ Cardinality(ats) = 1
       /\ LET a == CHOOSE i \in ats : TRUE
          IN /\ a > 1
             /\ \E i \in (a + 2)..(Len(s) - 1) : CharAt(s, i) = "."
             /\ CharAt(s, a + 1) # "."
IsEmail(v) == IsStr(v) /\ ValidEmail(v[2])

valid_statuses == {"pending", "processing", "shipped", "delivered", "cancelled"}

\* CustomerSchema(**data)
CustomerSchema(data) ==
    /\ StrField(data.customer_id, 1, 50)
    /\ StrField(data.name, 1, 255)
    /\ IsEmail(data.email)
    /\ OptStrField(data.phone, 50)
    /\ OptText(data.address)

\* ProductSchema(**data)
ProductSchema(data) ==
    /\ StrField(data.product_id, 1, 50)
    /\ StrField(data.name, 1, 255)
    /\ OptText(data.description)
    /\ IsNum(data.price) /\ data.price[2] > 0
    /\ OptStrField(data.category, 100)
    /\ IsNum(data.stock_quantity) /\ data.stock_quantity[2] >= 0

\* OrderSchema(**data): a datetime, or a number read as a timestamp
OrderSchema(data) ==
    /\ StrField(data.order_id, 1, 50)
    /\ StrField(data.customer_id, 1, 50)
    /\ data.order_date[1] \in {"datetime", "num"}
    /\ StrField(data.status, 1, 50)
    /\ Lower(data.status[2]) \in valid_statuses
    /\ IsNum(data.total_amount) /\ data.total_amount[2] >= 0

\* OrderItemSchema(**data)
OrderItemSchema(data) ==
    /\ StrField(data.order_id, 1, 50)
    /\ StrField(data.product_id, 1, 50)
    /\ IsNum(data.quantity) /\ data.quantity[2] > 0
    /\ IsNum(data.unit_price) /\ data.unit_price[2] > 0
    /\ IsNum(data.subtotal) /\ data.subtotal[2] >= 0

\* ------------------------------------------------------------- preparation
\* DataLoaderService.prepare_customer_data
prepare_customer_data(record) ==
    Ok([customer_id |-> Get(record, "customer_id"), name |-> Get(record, "name"),
        email |-> Get(record, "email"), phone |-> Get(record, "phone"),
        address |-> Get(record, "address")])

\* DataLoaderService.prepare_product_data
prepare_product_data(record) ==
    LET price == ToNumber(GetD(record, "price", N(0)))
        stock == IF Truthy(Get(record, "stock_quantity"))
                 THEN ToNumber(GetD(record, "stock_quantity", N(0))) ELSE Ok(0)
    IN IF ~price.ok THEN price
       ELSE IF ~stock.ok THEN stock
       ELSE Ok([product_id |-> Get(record, "product_id"), name |-> Get(record, "name"),
                description |-> Get(record, "description"), price |-> N(price.val),
                category |-> Get(record, "category"), stock_quantity |-> N(stock.val)])

\* DataLoaderService.prepare_order_data
prepare_order_data(record) ==
    LET raw == Get(record, "order_date")
        order_date == IF IsStr(raw) THEN ParseOrderDate(raw[2]) ELSE raw
        total == ToNumber(GetD(record, "total_amount", N(0)))
    IN IF ~total.ok THEN total
       ELSE Ok([order_id |-> Get(record, "order_id"), customer_id |-> Get(record, "customer_id"),
                order_date |-> order_date, status |-> GetD(record, "status", S("pending")),
                total_amount |-> N(total.val)])

\* DataLoaderService.prepare_order_item_data
prepare_order_item_data(record) ==
    LET quantity == ToNumber(GetD(record, "quantity", N(0)))
        unit_price == ToNumber(GetD(record, "unit_price", N(0)))
    IN IF ~quantity.ok THEN quantity
       ELSE IF ~unit_price.ok THEN unit_price
       ELSE LET subtotal == ToNumber(GetD(record, "subtotal", N(quantity.val * unit_price.val)))
            IN IF ~subtotal.ok THEN subtotal
               ELSE Ok([order_id |-> Get(record, "order_id"),
                        product_id |-> Get(record, "product_id"),
                        quantity |-> N(quantity.val), unit_price |-> N(unit_price.val),
                        subtotal |-> N(subtotal.val)])

\* validated.model_dump(): the status of an order is stored lower-cased
model_dump(table_type, data) ==
    IF table_type = "order" THEN [data EXCEPT !.status = S(Lower(data.status[2]))] ELSE data

\* ------------------------------------------------- validate and categorize
EmptyBatch == [customers |-> <<>>, products |-> <<>>, orders |-> <<>>, order_items |-> <<>>]

ListOf(table_type) ==
    CASE table_type = "customer" -> "customers"
      [] table_type = "product" -> "products"
      [] table_type = "order" -> "orders"
      [] table_type = "order_item" -> "order_items"

Prepare(table_type, record) ==
    CASE table_type = "customer" -> prepare_customer_data(record)
      [] table_type = "product" -> prepare_product_data(record)
      [] table_type = "order" -> prepare_order_data(record)
      [] table_type = "order_item" -> prepare_order_item_data(record)

Schema(table_type, data) ==
    CASE table_type = "customer" -> CustomerSchema(data)
      [] table_type = "product" -> ProductSchema(data)
      [] table_type = "order" -> OrderSchema(data)
      [] table_type = "order_item" -> OrderItemSchema(data)

\* A faulty variant of the loop body: a record that cannot be classified or
\* validated is dropped without a word.
CategorizeSilently(acc, row, record) ==
    LET table_type == identify_table_type(record)
    IN IF table_type = "None" THEN acc
       ELSE LET data == Prepare(table_type, record)
            IN IF ~data.ok \/ ~Schema(table_type, data.val) THEN acc
               ELSE [acc EXCEPT !.categorized[ListOf(table_type)] =
                        Append(@, model_dump(table_type, data.val))]

\* One iteration of the loop of validate_and_categorize_records; row is
\* idx + 1. acc = [categorized, errors].
CategorizeRecord(acc, row, record) ==
    LET table_type == identify_table_type(record)
    IN IF table_type = "None"
       THEN [acc EXCEPT !.errors =
                Append(@, <<"Row", row, "Could not identify table type from fields">>)]
       ELSE LET data == Prepare(table_type, record)
            IN IF ~data.ok
               THEN [acc EXCEPT !.errors = Append(@, <<"Row", row, "Error", data.val>>)]
               ELSE IF ~Schema(table_type, data.val)
               THEN [acc EXCEPT !.errors = Append(@, <<"Row", row, "Validation error">>)]
               ELSE [acc EXCEPT !.categorized[ListOf(table_type)] =
                        Append(@, model_dump(table_type, data.val))]

RECURSIVE CategorizeFrom(_, _, _)
CategorizeFrom(acc, records, row) ==
    IF row > Len(records) THEN acc
    ELSE CategorizeFrom(CategorizeRecord(acc, row, records[row]), records, row + 1)

\* DataLoaderService.validate_and_categorize_records, with self.errors
validate_and_categorize_records(errors, records) ==
    CategorizeFrom([categorized |-> EmptyBatch, errors |-> errors], records, 1)

\* ---------------------------------------------------------- relationships
Ids(rows, key) == {rows[i][key] : i \in 1..Len(rows)}

RECURSIVE OrderErrors(_, _)
OrderErrors(orders, all_customer_ids) ==
    IF orders = <<>> THEN <<>>
    ELSE (IF Head(orders).customer_id \notin all_customer_ids
          THEN << <<"Order", Head(orders).order_id[2], "Referenced customer",
                    Head(orders).customer_id[2], "does not exist">> >>
          ELSE <<>>)
         \o OrderErrors(Tail(orders), all_customer_ids)

RECURSIVE ItemErrors(_, _, _)
ItemErrors(items, all_order_ids, all_product_ids) ==
    IF items = <<>> THEN <<>>
    ELSE (IF Head(items).order_id \notin all_order_ids
          THEN << <<"Order item", "Referenced order", Head(items).order_id[2], "does not exist">> >>
          ELSE <<>>)
         \o (IF Head(items).product_id \notin all_product_ids
             THEN << <<"Order item", "Referenced product", Head(items).product_id[2], "does not exist">> >>
             ELSE <<>>)
         \o ItemErrors(Tail(items), all_order_ids, all_product_ids)

\* A faulty variant of verify_relationships that records nothing.
VerifyNothing(errors, categorized, store) == errors

\* DataLoaderService.verify_relationships: self.errors afterwards. store is
\* what the three key queries of the session return.
verify_relationships(errors, categorized, store) ==
    LET all_customer_ids == Ids(categorized.customers, "customer_id") \cup Ids(store.customers, "customer_id")
        all_product_ids == Ids(categorized.products, "product_id") \cup Ids(store.products, "product_id")
        all_order_ids == Ids(categorized.orders, "order_id") \cup Ids(store.orders, "order_id")
    IN errors \o OrderErrors(categorized.orders, all_customer_ids)
              \o ItemErrors(categorized.order_items, all_order_ids, all_product_ids)

\* ------------------------------------------------------------------- store
\* A faulty variant of the order of the tables: the orders come first.
KindsOrdersFirst == <<"orders", "customers", "products", "order_items">>
\* The tables in the order load_data_batch works through them.
Kinds == <<"customers", "products", "orders", "order_items">>

\* The natural key column of a table (None: order_items has none).
KeyOf(kind) ==
    CASE kind = "customers" -> "customer_id"
      [] kind = "products" -> "product_id"
      [] kind = "orders" -> "order_id"
      [] OTHER -> "None"

\* A store without the unique indexes.
NoUniqueColumn(kind) == FALSE
\* Column(..., unique=True) of Customer.customer_id, Product.product_id and
\* Order.order_id
UniqueColumn(kind) == kind \in {"customers", "products", "orders"}

\* batch a followed by batch b, table by table
Concat(a, b) == [k \in DOMAIN a |-> a[k] \o b[k]]

Distinct(rows, key) == \A i, j \in 1..Len(rows) : rows[i][key] = rows[j][key] => i = j

VARIABLES
    db,       \* the committed rows of the four tables, in insertion order
    req,      \* per worker: the upload_file call it is running
    loader,   \* per worker: the DataLoaderService of the current chunk
    session,  \* per worker: the AsyncSession of the request
    started,  \* uploads started so far
    repeat,   \* per worker: the outcome of the previous upload when the
              \* current upload sends the same file again, else NoRepeat
    before,   \* per worker: the committed rows when its current chunk (or,
              \* before the first chunk, its request) began
    call      \* a direct call of one function of the pipeline: its name, its
              \* arguments and, once it has returned, its result

vars == <<db, req, loader, session, started, repeat, before, call>>

Workers == {1, 2}

\* What a query of worker p sees: the committed rows and the rows p itself
\* has flushed in its open transaction.
Visible(p) == Concat(db, session[p].flushed)

\* The pending rows `new` of p break a unique index.
UniqueViolation(p, new) ==
    \E k \in DOMAIN EmptyBatch :
        /\ UniqueColumn(k)
        /\ \/ ~Distinct(new[k], KeyOf(k))
           \/ Ids(new[k], KeyOf(k)) \cap Ids(Visible(p)[k], KeyOf(k)) # {}

\* A store that does not check the foreign keys.
NoForeignKeys(p, new) == FALSE
\* ForeignKey("customers.customer_id"), ForeignKey("orders.order_id") and
\* ForeignKey("products.product_id"): a pending order or order item names a
\* parent that the transaction of p does not see.
ForeignKeyViolation(p, new) ==
    LET seen == Concat(Visible(p), new)
    IN \/ \E i \in 1..Len(new.orders) :
             new.orders[i].customer_id \notin Ids(seen.customers, "customer_id")
       \/ \E i \in 1..Len(new.order_items) :
             \/ new.order_items[i].order_id \notin Ids(seen.orders, "order_id")
             \/ new.order_items[i].product_id \notin Ids(seen.products, "product_id")

\* An insert of p waits for the open transaction of another worker that has
\* inserted the same key and not yet committed or rolled back.
Blocked(p, new) ==
    \E k \in DOMAIN EmptyBatch, q \in Workers \ {p} :
        /\ UniqueColumn(k)
        /\ Ids(new[k], KeyOf(k)) \cap Ids(session[q].flushed[k], KeyOf(k)) # {}

\* The INSERTs of the pending rows are refused by the store.
IntegrityError(p, new) == UniqueViolation(p, new) \/ ForeignKeyViolation(p, new)

\* session.flush() of the pending rows goes through.
CanFlush(p, new) ==
    session[p].state = "active" /\ ~IntegrityError(p, new) /\ ~Blocked(p, new)

\* The session of a request. state: "active"; "aborted" once a statement
\* has failed inside the transaction (the store refuses every further
\* statement and turns COMMIT into a rollback); "inactive" once a flush has
\* failed (the session has rolled back and raises on every use until
\* rollback() is called).
NewSession == [new |-> EmptyBatch, flushed |-> EmptyBatch, state |-> "active"]
\* A faulty variant of the rollback: the session keeps what it held.
NoRollback(sess) == sess
\* await self.session.rollback()
Rollback(sess) == NewSession
\* A faulty variant of the commit: the tables are replaced by the rows of
\* the transaction.
CommittedReplacing(store, sess) == sess.flushed
\* COMMIT: the rows sent in the transaction are added to the committed rows;
\* the COMMIT of an aborted transaction keeps none of them.
Committed(store, sess) ==
    IF sess.state = "active" THEN Concat(store, sess.flushed) ELSE store
\* session.flush(): the pending rows are sent to the open transaction
Flushed(sess) == [sess EXCEPT !.flushed = Concat(@, sess.new), !.new = EmptyBatch]

\* ------------------------------------------------------------------- inputs
Cust1 == [customer_id |-> S("c1"), name |-> S("Ann"), email |-> S("ann@x.io")]
CustBad == [customer_id |-> S("c2"), name |-> S("Bob"), email |-> S("not-an-email")]
Prod1 == [product_id |-> S("p1"), name |-> S("Pen"), price |-> N(5)]
Ord1 == [order_id |-> S("o1"), customer_id |-> S("c1"), order_date |-> S("2024-01-15"),
         status |-> S("Shipped")]
Item1 == [order_id |-> S("o1"), product_id |-> S("p1"), quantity |-> N(2), unit_price |-> N(5)]

JsonPool == {Cust1, CustBad, Prod1, Ord1, Item1}

SeqsUpTo(set, n) == UNION {[1..k -> set] : k \in 0..n}

Content(doc, header, rows) == [utf8 |-> TRUE, doc |-> doc, header |-> header, rows |-> rows]
Undecodable(doc) == [utf8 |-> FALSE, doc |-> doc, header |-> <<>>, rows |-> <<>>]
File(filename, content) == [filename |-> filename, content |-> content]

\* JSON array documents
ArrayFiles == {File("data.json", Content("array", <<>>, rows)) : rows \in SeqsUpTo(JsonPool, MaxRecords)}

\* Line documents: object lines, blank lines and malformed lines
ObjLine(rec) == [j |-> "obj", rec |-> rec, text |-> ""]
BlankLine == [j |-> "blank", rec |-> <<>>, text |-> "  "]
BadLine(text) == [j |-> "bad", rec |-> <<>>, text |-> text]
LongText == "{\"customer_id\": \"c9\", \"name\": \"Zed\", \"email\": \"zed@x.io\" \"phone\": 1}"
GoodLines == {ObjLine(Cust1), ObjLine(Prod1), BlankLine}
BadLines == {BadLine(" {oops"), BadLine(LongText)}
LineFiles ==
    {File("data.json", Content("lines", <<>>, rows)) :
        rows \in {r \in SeqsUpTo(GoodLines \cup BadLines, MaxRecords) :
                    Cardinality({i \in 1..Len(r) : r[i] \in BadLines}) <= 1}}

\* CSV documents of customers; an empty name cell is read as None
CsvHeader == <<"customer_id", "name", " email">>
CsvRows == {<<"c1", "Ann", " ann@x.io ">>, <<"c3", "", "cy@x.io">>}
CsvFiles == {File("Data.CSV", Content("csv", CsvHeader, rows)) : rows \in SeqsUpTo(CsvRows, MaxRecords)}

OtherFiles ==
    {File(name, Content("array", <<>>, <<Cust1, Prod1>>)) : name \in {"data.txt", "csv", "data.json.bak"}}
    \cup {File("data.json", Undecodable("array")), File("data.csv", Undecodable("csv"))}

Files == ArrayFiles \cup LineFiles \cup CsvFiles \cup OtherFiles

\* The uploads of two concurrent workers
ConcFiles ==
    {File("data.json", Content("array", <<>>, rows)) :
        rows \in {<<>>, <<Cust1>>, <<Cust1, Cust1>>, <<Prod1, Cust1>>, <<Cust1, Ord1>>}}
    \cup {File("data.json", Content("lines", <<>>, <<ObjLine(Cust1), BadLine(" {oops")>>))}

\* The uploads of two concurrent workers that race for customer c1, one of
\* them with a second customer in the same chunk
RaceFiles ==
    LET Cust2 == [customer_id |-> S("c2"), name |-> S("Bob"), email |-> S("bob@x.io")]
    IN ConcFiles \cup {File("data.json", Content("array", <<>>, rows)) :
                           rows \in {<<Cust1, Cust2>>, <<Cust2, Cust1>>}}

\* The uploads of a client that sends small files in a row
SeqFiles ==
    {File("data.json", Content("array", <<>>, rows)) :
        rows \in {<<>>, <<Cust1, Prod1>>, <<Ord1, Item1>>, <<Cust1, Ord1>>, <<Prod1>>}}
    \cup {File("data.json", Content("lines", <<>>, <<ObjLine(Cust1), BadLine(" {oops")>>))}

\* ------------------------------------------------------------------ requests
ZeroCounts == [customers |-> 0, products |-> 0, orders |-> 0, order_items |-> 0]
NoFile == File("", Undecodable(""))
NoResponse == [status |-> 0]
NoRepeat == [again |-> FALSE]
NoCall == [op |-> "none", pc |-> "returned"]

HTTPException(status_code, detail) == [status |-> status_code, detail |-> detail]

\* all_errors[:n]
FirstN(seq, n) == SubSeq(seq, 1, Min(n, Len(seq)))

\* UploadResponse(...) of upload_file
UploadResponse(r) ==
    [status |-> 200,
     message |-> IF r.all_errors = <<>> THEN "File processed successfully"
                 ELSE "File processed with errors",
     records_processed |-> r.total_records,
     success_rows_count |-> r.total_success_rows,
     skipped_rows_count |-> r.total_skipped_rows,
     customers_created |-> r.created.customers,
     products_created |-> r.created.products,
     orders_created |-> r.created.orders,
     order_items_created |-> r.created.order_items,
     errors |-> FirstN(r.all_errors, ErrorCap)]

IdleRequest ==
    [pc |-> "idle", file |-> NoFile, chunk_no |-> 0, chunk |-> <<>>, chunks_loaded |-> 0,
     total_records |-> 0, total_success_rows |-> 0, total_skipped_rows |-> 0,
     created |-> ZeroCounts, all_errors |-> <<>>, response |-> NoResponse]

\* DataLoaderService.__init__ sets self.session and self.errors; phase, idx
\* and counts are the position and the locals of load_data_batch; log lists
\* the store operations load_data_batch has issued, in order.
NewLoader ==
    [errors |-> <<>>, categorized |-> EmptyBatch, phase |-> "none", idx |-> 0,
     counts |-> ZeroCounts, log |-> <<>>]
LoaderAttributes == {"session", "errors"}

Init ==
    /\ db = EmptyBatch
    /\ req = [p \in Workers |-> IdleRequest]
    /\ loader = [p \in Workers |-> NewLoader]
    /\ session = [p \in Workers |-> NewSession]
    /\ started = 0
    /\ repeat = [p \in Workers |-> NoRepeat]
    /\ before = [p \in Workers |-> EmptyBatch]
    /\ call = NoCall

\* The request of p ends with `response`.
Respond(p, r, response) ==
    req' = [req EXCEPT ![p] = [r EXCEPT !.pc = "done", !.response = response]]

\* except Exception as e: raise HTTPException(500, ...)   (upload.py:90-92)
Fail500(p, r, e) == Respond(p, r, HTTPException(500, <<"Error processing file: ", e>>))

\* upload_file, up to the creation of the generators (upload.py:34-55), on a
\* fresh session of get_db
Begin(p, file) ==
    /\ started' = started + 1
    /\ loader' = [loader EXCEPT ![p] = NewLoader]
    /\ session' = [session EXCEPT ![p] = NewSession]
    /\ IF detect_file_type(file.filename) = "ValueError"
       THEN Respond(p, [IdleRequest EXCEPT !.file = file], HTTPException(400, <<UnsupportedMsg>>))
       ELSE req' = [req EXCEPT ![p] = [IdleRequest EXCEPT !.pc = "chunks", !.file = file]]
    /\ before' = [before EXCEPT ![p] = db]
    /\ UNCHANGED <<db, call>>

\* A client uploads a file.
StartUpload(p, file, limit) ==
    /\ req[p].pc = "idle"
    /\ started < limit
    /\ repeat' = [repeat EXCEPT ![p] = NoRepeat]
    /\ Begin(p, file)

\* The client sends the file of the request that has just ended once more.
Resend(p, limit) ==
    /\ req[p].pc = "done"
    /\ started < limit
    /\ repeat' = [repeat EXCEPT ![p] =
                    [again |-> TRUE, created |-> req[p].created,
                     all_errors |-> req[p].all_errors, loader_errors |-> loader[p].errors,
                     chunks_loaded |-> req[p].chunks_loaded, db |-> db]]
    /\ Begin(p, req[p].file)

\* get_db: finally: await session.close(). What the session had not
\* committed is discarded; the worker is free for the next request.
Close(p) ==
    /\ req[p].pc = "done"
    /\ req' = [req EXCEPT ![p] = IdleRequest]
    /\ loader' = [loader EXCEPT ![p] = NewLoader]
    /\ session' = [session EXCEPT ![p] = NewSession]
    /\ repeat' = [repeat EXCEPT ![p] = NoRepeat]
    /\ UNCHANGED <<db, started, before, call>>

\* async for chunk in chunks_generator: the next chunk (upload.py:58-60)
NextChunk(p) ==
    LET r == req[p]
        chunks == ChunksEmitted(parse_file(r.file))
        n == r.chunk_no + 1
    IN /\ r.pc = "chunks"
       /\ n <= Len(chunks)
       /\ req' = [req EXCEPT ![p] = [r EXCEPT !.pc = "validate", !.chunk_no = n,
                                               !.chunk = chunks[n],
                                               !.total_records = @ + Len(chunks[n])]]
       /\ loader' = [loader EXCEPT ![p] = NewLoader]
       /\ before' = [before EXCEPT ![p] = db]
       /\ UNCHANGED <<db, session, started, repeat, call>>

\* The record generator raises while the next chunk is being filled.
DecodeFails(p) ==
    LET r == req[p]
        parsed == parse_file(r.file)
    IN /\ r.pc = "chunks"
       /\ r.chunk_no + 1 > Len(ChunksEmitted(parsed))
       /\ parsed.error # NoError
       /\ Fail500(p, r, parsed.error)
       /\ UNCHANGED <<db, loader, session, started, repeat, before, call>>

\* The generator is exhausted: return UploadResponse(...) (upload.py:94-104)
ReturnSummary(p) ==
    LET r == req[p]
        parsed == parse_file(r.file)
    IN /\ r.pc = "chunks"
       /\ r.chunk_no + 1 > Len(ChunksEmitted(parsed))
       /\ parsed.error = NoError
       /\ Respond(p, r, UploadResponse(r))
       /\ UNCHANGED <<db, loader, session, started, repeat, before, call>>

\* loader = DataLoaderService(db); validate_and_categorize_records(chunk)
Validate(p) ==
    LET out == validate_and_categorize_records(<<>>, req[p].chunk)
    IN /\ req[p].pc = "validate"
       /\ loader' = [loader EXCEPT ![p] = [NewLoader EXCEPT !.errors = out.errors,
                                                           !.categorized = out.categorized]]
       /\ req' = [req EXCEPT ![p].pc = "verify"]
       /\ UNCHANGED <<db, session, started, repeat, before, call>>

\* A faulty variant of the position: the commit follows the first table.
CommitAfterFirstTable(categorized, i) ==
    IF i > 1 THEN "commit"
    ELSE IF categorized.customers # <<>> THEN "customers"
    ELSE IF categorized.products # <<>> THEN "products"
    ELSE IF categorized.orders # <<>> THEN "orders"
    ELSE IF categorized.order_items # <<>> THEN "order_items"
    ELSE "commit"
\* The first table at or after position i of Kinds that has rows to load.
RECURSIVE PhaseFrom(_, _)
PhaseFrom(categorized, i) ==
    IF i > Len(Kinds) THEN "commit"
    ELSE IF categorized[Kinds[i]] # <<>> THEN Kinds[i]
    ELSE PhaseFrom(categorized, i + 1)
Position(kind) == CHOOSE i \in 1..Len(Kinds) : Kinds[i] = kind

\* A faulty variant of the guard: load whatever the errors.
LoadAlways(errors) == TRUE
\* if not loader.errors:   (upload.py:72)
ShouldLoad(errors) == errors = <<>>

\* await loader.verify_relationships(categorized), then the guard of the load
Verify(p) ==
    LET errors == verify_relationships(loader[p].errors, loader[p].categorized, Visible(p))
    IN /\ req[p].pc = "verify"
       /\ IF ShouldLoad(errors)
          THEN /\ loader' = [loader EXCEPT ![p].errors = errors,
                                           ![p].phase = PhaseFrom(loader[p].categorized, 1),
                                           ![p].idx = 1]
               /\ req' = [req EXCEPT ![p].pc = "load"]
          ELSE /\ loader' = [loader EXCEPT ![p].errors = errors]
               /\ req' = [req EXCEPT ![p].pc = "aggregate"]
       /\ UNCHANGED <<db, session, started, repeat, before, call>>

\* One of the key queries of verify_relationships raises: the exception
\* leaves the chunk loop.
VerifyFails(p) ==
    /\ req[p].pc = "verify"
    /\ Fail500(p, req[p], <<"OperationalError">>)
    /\ UNCHANGED <<db, loader, session, started, repeat, before, call>>

\* ------------------------------------------------------- load_data_batch
ErrorLabel(kind) ==
    CASE kind = "customers" -> "Customer"
      [] kind = "products" -> "Product"
      [] kind = "orders" -> "Order"
      [] OTHER -> "Order item"

\* The rows of the table load_data_batch is working on.
CurrentRows(p) == loader[p].categorized[loader[p].phase]

AtRow(p) ==
    /\ req[p].pc = "load"
    /\ loader[p].phase \in {"customers", "products", "orders"}
    /\ loader[p].idx <= Len(CurrentRows(p))

AtFlush(p) ==
    /\ req[p].pc = "load"
    /\ \/ loader[p].phase = "order_items"
       \/ /\ loader[p].phase \in {"customers", "products", "orders"}
          /\ loader[p].idx > Len(CurrentRows(p))

AtCommit(p) == req[p].pc = "load" /\ loader[p].phase = "commit"

\* A faulty variant of the existence check: nothing is ever found.
NeverExisting(store, kind, row) == FALSE
\* select(...).where(key == row[key]); scalar_one_or_none()
Existing(store, kind, row) == row[KeyOf(kind)] \in Ids(store[kind], KeyOf(kind))

\* One row of the customers, products or orders loop: the select (which
\* first flushes the rows added so far) and, when nothing is found, the add.
LoadRow(p) ==
    LET kind == loader[p].phase
        row == CurrentRows(p)[loader[p].idx]
        sess == Flushed(session[p])
        existing == Existing(Concat(db, sess.flushed), kind, row)
    IN /\ AtRow(p)
       /\ CanFlush(p, session[p].new)
       /\ session' = [session EXCEPT ![p] =
                         IF existing THEN sess ELSE [sess EXCEPT !.new[kind] = Append(@, row)]]
       /\ loader' = [loader EXCEPT ![p].idx = @ + 1,
                                   ![p].counts[kind] = IF existing THEN @ ELSE @ + 1,
                                   ![p].log = Append(@, <<kind, "check">>)]
       /\ UNCHANGED <<db, req, started, repeat, before, call>>

\* The session after a select of a row has raised. In a session that is not
\* active nothing changes. When the store refuses the pending rows, the flush
\* before the select fails and the session becomes inactive. Otherwise the
\* outcome depends on what failed: the session stays as it was, or the
\* pending rows were sent and the transaction is aborted, or the flush
\* failed.
AfterFailedSelect(p) ==
    IF session[p].state # "active" THEN {session[p]}
    ELSE IF IntegrityError(p, session[p].new) THEN {[NewSession EXCEPT !.state = "inactive"]}
    ELSE {session[p],
          [Flushed(session[p]) EXCEPT !.state = "aborted"],
          [NewSession EXCEPT !.state = "inactive"]}

\* The select of one row raises; the except of the row records it and the
\* loop goes on (data_loader.py:234-236).
LoadRowFails(p) ==
    LET kind == loader[p].phase
        row == CurrentRows(p)[loader[p].idx]
    IN /\ AtRow(p)
       /\ \E sess \in AfterFailedSelect(p) : session' = [session EXCEPT ![p] = sess]
       /\ loader' = [loader EXCEPT ![p].idx = @ + 1,
                                   ![p].errors = Append(@, <<ErrorLabel(kind), row[KeyOf(kind)][2], "exception">>),
                                   ![p].log = Append(@, <<kind, "check">>)]
       /\ UNCHANGED <<db, req, started, repeat, before, call>>

\* The session as session.flush() finds it at the end of the current table;
\* the order items are added (no select) right before their flush.
ToFlush(p) ==
    IF loader[p].phase = "order_items"
    THEN [session[p] EXCEPT !.new.order_items = @ \o CurrentRows(p)]
    ELSE session[p]

\* The operations of the flush at the end of the current table: for the order
\* items, the session.add of each item comes first.
FlushOps(p) ==
    LET kind == loader[p].phase
    IN (IF kind = "order_items" THEN [i \in 1..Len(CurrentRows(p)) |-> <<kind, "insert">>] ELSE <<>>)
       \o << <<kind, "flush">> >>

\* await self.session.flush() at the end of a table. With nothing pending it
\* sends nothing and returns, whatever the state of the session.
LoadFlush(p) ==
    LET kind == loader[p].phase
        added == IF kind = "order_items" THEN Len(CurrentRows(p)) ELSE 0
        sess == ToFlush(p)
    IN /\ AtFlush(p)
       /\ \/ CanFlush(p, sess.new)
          \/ sess.new = EmptyBatch
       /\ session' = [session EXCEPT ![p] = Flushed(sess)]
       /\ loader' = [loader EXCEPT ![p].phase = PhaseFrom(loader[p].categorized, Position(kind) + 1),
                                   ![p].idx = 1,
                                   ![p].counts[kind] = @ + added,
                                   ![p].log = @ \o FlushOps(p)]
       /\ UNCHANGED <<db, req, started, repeat, before, call>>

\* await self.session.commit(), return of the four counts, and their addition
\* to the totals of the upload (upload.py:74-78). The commit of an aborted
\* transaction ends it without an error and keeps nothing.
LoadCommit(p) ==
    /\ AtCommit(p)
    /\ session[p].state # "inactive"
    /\ db' = Committed(db, session[p])
    /\ session' = [session EXCEPT ![p] = NewSession]
    /\ req' = [req EXCEPT ![p].pc = "aggregate",
                          ![p].chunks_loaded = @ + 1,
                          ![p].created = [k \in DOMAIN ZeroCounts |-> @[k] + loader[p].counts[k]]]
    /\ loader' = [loader EXCEPT ![p].log = Append(@, <<"all", "commit">>)]
    /\ UNCHANGED <<started, repeat, before, call>>

\* A flush that has rows to send, or the commit, raises: rollback, the
\* "Database error" entry, re-raise (data_loader.py:294-298); upload_file
\* records the error and adds no count (upload.py:79-81).
LoadFails(p) ==
    /\ \/ AtFlush(p) /\ ToFlush(p).new # EmptyBatch
       \/ AtCommit(p)
    /\ session' = [session EXCEPT ![p] = Rollback(session[p])]
    /\ loader' = [loader EXCEPT ![p].errors = Append(@, <<"Database error", "exception">>),
                                ![p].phase = "failed",
                                ![p].log = @ \o (IF AtCommit(p) THEN << <<"all", "commit">> >>
                                                 ELSE FlushOps(p))]
    /\ req' = [req EXCEPT ![p].pc = "aggregate",
                          ![p].all_errors = Append(@, <<"Database error", "exception">>)]
    /\ UNCHANGED <<db, started, repeat, before, call>>

\* total_success_rows += loader.success_rows; total_skipped_rows +=
\* loader.skipped_rows; all_errors.extend(loader.errors)  (upload.py:84-88).
\* Reading an attribute the loader does not have raises AttributeError, which
\* the except of upload.py:90 turns into the 500 response.
Aggregate(p) ==
    /\ req[p].pc = "aggregate"
    /\ IF {"success_rows", "skipped_rows"} \subseteq LoaderAttributes
       THEN /\ req' = [req EXCEPT ![p].pc = "chunks",
                                  ![p].total_success_rows = @ + loader[p].success_rows,
                                  ![p].total_skipped_rows = @ + loader[p].skipped_rows,
                                  ![p].all_errors = @ \o loader[p].errors]
       ELSE Fail500(p, req[p], <<"AttributeError", "'DataLoaderService' object has no attribute 'success_rows'">>)
    /\ UNCHANGED <<db, loader, session, started, repeat, before, call>>

\* The caller goes away while upload_file awaits the store: the request is
\* cancelled at that await, no except clause of upload_file or of
\* load_data_batch runs (they catch Exception only), and get_db closes the
\* session, which discards what it had not committed.
Abort(p) ==
    /\ req[p].pc \in {"verify", "load"}
    /\ Respond(p, req[p], NoResponse)
    /\ session' = [session EXCEPT ![p] = NewSession]
    /\ UNCHANGED <<db, loader, started, repeat, before, call>>

\* --------------------------------------------------------- specifications
Step(p, files, limit) ==
    \/ \E file \in files : StartUpload(p, file, limit)
    \/ Resend(p, limit)
    \/ Close(p)
    \/ NextChunk(p)
    \/ DecodeFails(p)
    \/ ReturnSummary(p)
    \/ Validate(p)
    \/ Verify(p)
    \/ VerifyFails(p)
    \/ LoadRow(p)
    \/ LoadRowFails(p)
    \/ LoadFlush(p)
    \/ LoadCommit(p)
    \/ LoadFails(p)
    \/ Aggregate(p)

\* One worker: uploads are served one after the other.
Next == Step(1, Files, MaxUploads)
Spec == Init /\ [][Next]_vars

\* Two workers serve uploads concurrently, each with its own session.
NextConc == \E p \in Workers : Step(p, ConcFiles, MaxConcUploads)
SpecConc == Init /\ [][NextConc]_vars

\* Two workers serve uploads that race for the same customer key.
NextRace == \E p \in Workers : Step(p, RaceFiles, MaxConcUploads)
SpecRace == Init /\ [][NextRace]_vars

\* One client sends small files one after the other.
NextSeq == Step(1, SeqFiles, MaxSeqUploads)
SpecSeq == Init /\ [][NextSeq]_vars

\* One client sends small files one after the other and may go away while an
\* upload is being served.
NextAbort == Step(1, SeqFiles, MaxSeqUploads) \/ Abort(1)
SpecAbort == Init /\ [][NextAbort]_vars

\* ------------------------------------------------- direct calls of functions
\* A call of one function of the pipeline with the given arguments.
Call(op, args) == [op |-> op, pc |-> "called", args |-> args, out |-> <<>>]
Called(op) == call.op = op /\ call.pc = "called"
Return(out) ==
    /\ call' = [call EXCEPT !.pc = "returned", !.out = out]
    /\ UNCHANGED <<db, req, loader, session, started, repeat, before>>

\* Records of a chunker call are told apart by a mark.
Marks == {"a", "b"}
ChunkerCalls ==
    {Call("chunk_records", [records |-> r, chunk_size |-> c]) :
        r \in SeqsUpTo(Marks, MaxChunkInput), c \in 1..MaxChunkSize}

\* async for chunk in FileParserService.chunk_records(records, chunk_size)
CallChunkRecords ==
    /\ Called("chunk_records")
    /\ Return(chunk_records(call.args.records, call.args.chunk_size))

\* Records of every key set over the field names the classifier looks at,
\* with all values text or all values null.
FieldNames == {"customer_id", "email", "product_id", "price", "order_id", "quantity", "order_date"}
FieldValues == {S("x"), None}
ClassifierCalls ==
    {Call("identify_table_type", [record |-> [k \in keys |-> v]]) :
        keys \in SUBSET FieldNames, v \in FieldValues}

\* table_type = self.identify_table_type(record)
CallIdentifyTableType ==
    /\ Called("identify_table_type")
    /\ Return(identify_table_type(call.args.record))

\* Chunks for the validator: the records of the uploads, order items whose
\* subtotal is null (JSON null, or an empty CSV cell) or given, a record of
\* no kind, and a product whose price is no number.
ItemNull == [order_id |-> S("o1"), product_id |-> S("p1"), quantity |-> N(2),
             unit_price |-> N(5), subtotal |-> None]
ItemCsvHeader == <<"order_id", "product_id", "quantity", "unit_price", "subtotal">>
ItemCsvEmpty == CleanCsvRow(ItemCsvHeader, <<"o1", "p1", "3", "4", "">>)
ItemCsvGiven == CleanCsvRow(ItemCsvHeader, <<"o1", "p1", "3", "4", "12">>)
NoKind == [name |-> S("Ann")]
ProdNoPrice == [product_id |-> S("p2"), name |-> S("Ink"), price |-> S("cheap")]
ValidatorPool ==
    JsonPool \cup {ItemNull, ItemCsvEmpty, ItemCsvGiven, NoKind, ProdNoPrice}
ValidatorCalls ==
    {Call("validate_and_categorize_records", [records |-> r]) :
        r \in SeqsUpTo(ValidatorPool, MaxRecords)}

\* categorized = await loader.validate_and_categorize_records(records), on a
\* new DataLoaderService
CallValidateAndCategorize ==
    /\ Called("validate_and_categorize_records")
    /\ Return(validate_and_categorize_records(<<>>, call.args.records))

\* Uploads whose records go through the chunker and then, chunk by chunk,
\* through the validator of a new loader.
ChunkValidatorCalls ==
    {Call("validate_chunks", [records |-> r]) :
        r \in SeqsUpTo({Cust1, CustBad, NoKind}, MaxRecords)}

\* async for chunk in chunks_generator: loader = DataLoaderService(db);
\* await loader.validate_and_categorize_records(chunk)  (upload.py:57-65):
\* the errors of the loader of each chunk
CallValidateChunks ==
    LET chunks == chunk_records(call.args.records, CHUNK_SIZE)
    IN /\ Called("validate_chunks")
       /\ Return([k \in 1..Len(chunks) |-> validate_and_categorize_records(<<>>, chunks[k]).errors])

\* CSV texts for the decoder: a header, and rows of empty and filled cells
\* that are blank, too short, as long as the header, or one cell too long.
RaggedRows(header) == UNION {[1..n -> {"", " x"}] : n \in 0..(Len(header) + 1)}
CsvDecoderCalls ==
    UNION {{Call("parse_csv_streaming", [content |-> Content("csv", header, rows)]) :
               rows \in SeqsUpTo(RaggedRows(header), MaxCsvRows)} :
           header \in {<<"customer_id", " email", "order_id ">>, <<"product_id", "price">>}}

\* async for record in parse_csv_streaming(file), and the table type
\* validate_and_categorize_records finds for each record
CallParseCsvStreaming ==
    LET parsed == parse_csv_streaming(call.args.content)
    IN /\ Called("parse_csv_streaming")
       /\ Return([records |-> parsed.records, error |-> parsed.error,
                  types |-> [i \in 1..Len(parsed.records) |-> identify_table_type(parsed.records[i])]])

Calls ==
    ChunkerCalls \cup ClassifierCalls \cup ValidatorCalls \cup ChunkValidatorCalls
    \cup CsvDecoderCalls

InitCalls ==
    /\ db = EmptyBatch
    /\ req = [p \in Workers |-> IdleRequest]
    /\ loader = [p \in Workers |-> NewLoader]
    /\ session = [p \in Workers |-> NewSession]
    /\ started = 0
    /\ repeat = [p \in Workers |-> NoRepeat]
    /\ before = [p \in Workers |-> EmptyBatch]
    /\ call \in Calls

\* The functions of the pipeline, each called on its own.
NextCalls ==
    \/ CallChunkRecords
    \/ CallIdentifyTableType
    \/ CallValidateAndCategorize
    \/ CallValidateChunks
    \/ CallParseCsvStreaming
SpecCalls == InitCalls /\ [][NextCalls]_vars

\* ------------------------------------------------------------------ claims
\* The last element of an entry recorded for an exception of the store.
HasException(errors) == \E i \in 1..Len(errors) : errors[i][Len(errors[i])] = "exception"
HasDatabaseError(errors) == \E i \in 1..Len(errors) : errors[i][1] = "Database error"
\* The entries recorded by classification, validation and verification.
HasRowError(errors) == \E i \in 1..Len(errors) : errors[i][Len(errors[i])] # "exception"

VerifyFailed(p) ==
    /\ req[p].pc = "done"
    /\ req[p].response.status = 500
    /\ req[p].response.detail[2] = <<"OperationalError">>
\* Some store operation of the current request of p raised.
StoreFailed(p) == VerifyFailed(p) \/ HasException(loader[p].errors)

HasSupportedExtension(filename) ==
    EndsWith(Lower(filename), ".csv") \/ EndsWith(Lower(filename), ".json")
Decodes(file) == HasSupportedExtension(file.filename) /\ parse_file(file).error = NoError

\* A record that classification or validation rejects.
RowFails(record) ==
    LET table_type == identify_table_type(record)
    IN \/ table_type = "None"
       \/ ~Prepare(table_type, record).ok
       \/ ~Schema(table_type, Prepare(table_type, record).val)
\* A validated order or order item of the chunk of p whose parent is neither
\* in the chunk nor in the store as the chunk began.
OrderDangles(p, o) ==
    o.customer_id \notin Ids(loader[p].categorized.customers, "customer_id")
                            \cup Ids(before[p].customers, "customer_id")
ItemDangles(p, it) ==
    \/ it.order_id \notin Ids(loader[p].categorized.orders, "order_id")
                             \cup Ids(before[p].orders, "order_id")
    \/ it.product_id \notin Ids(loader[p].categorized.products, "product_id")
                               \cup Ids(before[p].products, "product_id")
ChunkHasRowFailure(p) ==
    \/ \E i \in 1..Len(req[p].chunk) : RowFails(req[p].chunk[i])
    \/ \E i \in 1..Len(loader[p].categorized.orders) :
          OrderDangles(p, loader[p].categorized.orders[i])
    \/ \E i \in 1..Len(loader[p].categorized.order_items) :
          ItemDangles(p, loader[p].categorized.order_items[i])
\* The chunk of p has been validated and verified.
ChunkVerified(p) == req[p].pc \in {"load", "aggregate", "done"} /\ req[p].chunk_no >= 1
ChunkOver(p) == req[p].pc \in {"aggregate", "done"} /\ req[p].chunk_no >= 1

\* C1: in every committed store state each order's customer_id is the key of
\* a customer row, and each order item's order_id and product_id are the keys
\* of an order row and of a product row.
C1_ReferentialIntegrity ==
    /\ \A i \in 1..Len(db.orders) :
          db.orders[i].customer_id \in Ids(db.customers, "customer_id")
    /\ \A i \in 1..Len(db.order_items) :
          /\ db.order_items[i].order_id \in Ids(db.orders, "order_id")
          /\ db.order_items[i].product_id \in Ids(db.products, "product_id")
\* An order and an order item have been committed.
C1_Witness == db.orders # <<>> /\ db.order_items # <<>>

\* C2: an upload with a supported extension and decodable content ends with
\* the result summary (no store operation failing).
C2_AlwaysSummary ==
    \A p \in Workers :
        (req[p].pc = "done" /\ Decodes(req[p].file) /\ ~StoreFailed(p))
            => req[p].response.status = 200

\* C3: when a file whose first ingestion loaded its chunk without any error
\* is ingested again, the second ingestion creates no row of any kind and
\* leaves the store as the first one left it.
C3_Idempotent ==
    \A p \in Workers :
        (/\ req[p].pc = "done"
         /\ repeat[p].again
         /\ repeat[p].chunks_loaded >= 1
         /\ repeat[p].all_errors = <<>> /\ repeat[p].loader_errors = <<>>
         /\ ~StoreFailed(p))
            => /\ req[p].created = ZeroCounts
               /\ db = repeat[p].db

\* C4 as claimed: in a chunk with a row-level failure the other records, which
\* validate and whose references resolve, are persisted.
C4_SiblingsPersisted ==
    \A p \in Workers :
        (ChunkOver(p) /\ ChunkHasRowFailure(p) /\ ~StoreFailed(p))
            => \A k \in DOMAIN EmptyBatch : \A i \in 1..Len(loader[p].categorized[k]) :
                  LET row == loader[p].categorized[k][i]
                  IN \/ k = "orders" /\ OrderDangles(p, row)
                     \/ k = "order_items" /\ ItemDangles(p, row)
                     \/ \E j \in 1..Len(db[k]) : db[k][j] = row

NumberValid(chunk) == Cardinality({i \in 1..Len(chunk) : ~RowFails(chunk[i])})
NumberCategorized(categorized) ==
    Len(categorized.customers) + Len(categorized.products)
        + Len(categorized.orders) + Len(categorized.order_items)

\* C4 as amended: a row-level failure of one record of a chunk keeps the
\* whole chunk out of the store: the other valid records are still validated
\* and categorized, and no record of the chunk is persisted or counted.
C4_FailureBlocksChunk ==
    \A p \in Workers :
        (ChunkOver(p) /\ ChunkHasRowFailure(p))
            => /\ NumberCategorized(loader[p].categorized) = NumberValid(req[p].chunk)
               /\ req[p].created = ZeroCounts
               /\ req[p].chunks_loaded = 0
               /\ db = before[p]
\* A chunk of one invalid and one valid customer has been processed.
C4_Witness ==
    \E p \in Workers :
        /\ ChunkOver(p)
        /\ \E i \in 1..Len(req[p].chunk) : RowFails(req[p].chunk[i])
        /\ loader[p].categorized.customers # <<>>

\* C5: load_data_batch runs for a chunk only when classification, validation
\* and relationship verification recorded no error; when they recorded one,
\* nothing of the chunk is added to the session, counted or committed.
C5_LoadOnlyWhenClean ==
    \A p \in Workers :
        HasRowError(loader[p].errors)
            => /\ req[p].pc # "load"
               /\ session[p].new = EmptyBatch /\ session[p].flushed = EmptyBatch
               /\ loader[p].counts = ZeroCounts
               /\ req[p].chunks_loaded = 0
               /\ ChunkOver(p) => db = before[p]
\* Verification has recorded an error for a chunk that has validated rows.
C5_Witness ==
    \E p \in Workers :
        /\ req[p].pc = "aggregate"
        /\ HasRowError(loader[p].errors)
        /\ NumberCategorized(loader[p].categorized) > 0

C7_LaterChunksProcessed ==
    \A p \in Workers :
        (req[p].pc = "done" /\ Decodes(req[p].file) /\ ~VerifyFailed(p)
            /\ loader[p].errors # <<>>)
            => req[p].chunk_no = Len(ChunksEmitted(parse_file(req[p].file)))

\* C8: no two committed customers share a customer_id, no two products a
\* product_id, no two orders an order_id.
C8_NaturalKeysUnique ==
    /\ Distinct(db.customers, "customer_id")
    /\ Distinct(db.products, "product_id")
    /\ Distinct(db.orders, "order_id")
\* Two workers have loaded the same customer key at the same time, one of
\* them from a chunk that carries it twice, and the key is committed.
C8_Witness ==
    \E p, q \in Workers :
        /\ p # q
        /\ ChunkVerified(p) /\ ChunkVerified(q)
        /\ Len(loader[p].categorized.customers) = 2
        /\ Ids(loader[p].categorized.customers, "customer_id")
              = Ids(loader[q].categorized.customers, "customer_id")
        /\ db.customers # <<>>
        /\ loader[p].counts.customers = 1 /\ loader[q].counts.customers = 1

\* C9: an upload whose filename ends neither in .csv nor in .json is answered
\* with the unsupported-file-type error at once: no chunk is pulled, no record
\* is counted, classified or validated, and the store is as before.
C9_UnsupportedFormatRejected ==
    \A p \in Workers :
        (req[p].pc # "idle" /\ ~HasSupportedExtension(req[p].file.filename))
            => /\ req[p].pc = "done"
               /\ req[p].response = HTTPException(400, <<UnsupportedMsg>>)
               /\ req[p].chunk_no = 0 /\ req[p].total_records = 0
               /\ loader[p] = NewLoader
               /\ db = before[p]
\* The upload of data.txt has been answered.
C9_Witness ==
    \E p \in Workers :
        /\ req[p].pc = "done"
        /\ req[p].file.filename = "data.txt"
        /\ req[p].file.content.rows # <<>>

\* C10: an upload of line-delimited JSON with a malformed line ends (no store
\* operation failing) with the error that names the first 50 characters of
\* that line, and no record at or after that line is processed.
C10_MalformedLineReported ==
    \A p \in Workers :
        LET lines == NonBlank(req[p].file.content.rows)
            b == FirstBad(lines)
        IN (/\ req[p].pc = "done"
            /\ HasSupportedExtension(req[p].file.filename)
            /\ req[p].file.content.utf8 /\ req[p].file.content.doc = "lines"
            /\ b # 0
            /\ ~StoreFailed(p))
               => /\ req[p].response.status = 500
                  /\ req[p].response.detail[2]
                        = <<"ValueError", "Invalid JSON line: ", Prefix(Strip(lines[b].text), 50), "...">>
                  /\ req[p].total_records < b

Returned(op) == call.op = op /\ call.pc = "returned"

RECURSIVE Flatten(_)
Flatten(chunks) == IF chunks = <<>> THEN <<>> ELSE Head(chunks) \o Flatten(Tail(chunks))

\* C11: for R records and a positive chunk size C, chunk_records emits
\* ceil(R / C) chunks, every chunk but the last has C records, no chunk is
\* empty, and the chunks concatenated in emission order are the input.
C11_ChunkSizes ==
    Returned("chunk_records") =>
        LET R == Len(call.args.records)
            C == call.args.chunk_size
            out == call.out
        IN /\ Len(out) = (R + C - 1) \div C
           /\ \A k \in 1..(Len(out) - 1) : Len(out[k]) = C
           /\ \A k \in 1..Len(out) : Len(out[k]) >= 1
           /\ Flatten(out) = call.args.records
\* Five records in chunks of two: two full chunks and a last chunk of one.
C11_Witness ==
    /\ Returned("chunk_records")
    /\ Len(call.args.records) = 5 /\ call.args.chunk_size = 2
    /\ Len(call.out) = 3 /\ Len(call.out[3]) = 1

\* The decision rules of the classifier, in order: the kind, the keys a
\* record must have and the keys it must not have.
ClassifierRules ==
    <<[kind |-> "customer", has |-> {"customer_id", "email"}, lacks |-> {"order_id", "product_id"}],
      [kind |-> "product", has |-> {"product_id", "price"}, lacks |-> {"customer_id", "order_id"}],
      [kind |-> "order_item", has |-> {"order_id", "product_id", "quantity"}, lacks |-> {}],
      [kind |-> "order", has |-> {"order_id", "customer_id", "order_date"}, lacks |-> {}]>>
FirstMatch(keys) ==
    LET matching == {i \in 1..Len(ClassifierRules) :
                        /\ ClassifierRules[i].has \subseteq keys
                        /\ ClassifierRules[i].lacks \cap keys = {}}
    IN IF matching = {} THEN "None"
       ELSE ClassifierRules[CHOOSE i \in matching : \A j \in matching : i <= j].kind

\* C12: for every key set over the seven field names identify_table_type
\* returns the kind of the first matching rule (customer, product, order
\* item, order), else None; the result is the same whatever the values.
C12_FirstMatchingRule ==
    Returned("identify_table_type") =>
        LET keys == DOMAIN call.args.record
        IN /\ call.out = FirstMatch(keys)
           /\ \A v \in FieldValues : identify_table_type([k \in keys |-> v]) = call.out
\* A record with the keys of an order and of an order item is an order item.
C12_Witness ==
    /\ Returned("identify_table_type")
    /\ DOMAIN call.args.record = {"order_id", "customer_id", "order_date", "product_id", "quantity"}
    /\ call.out = "order_item"

\* The positions of the records of a chunk that fail classification or
\* validation, and the row numbers the error entries carry, in order.
FailingRows(records) == {i \in 1..Len(records) : RowFails(records[i])}
RowTags(errors) == [i \in 1..Len(errors) |-> errors[i][2]]
\* The validated form of the records of one kind, in input order.
RECURSIVE ValidOfKind(_, _)
ValidOfKind(records, table_type) ==
    IF records = <<>> THEN <<>>
    ELSE (IF ~RowFails(Head(records)) /\ identify_table_type(Head(records)) = table_type
          THEN <<model_dump(table_type, Prepare(table_type, Head(records)).val)>>
          ELSE <<>>)
         \o ValidOfKind(Tail(records), table_type)

\* C13: every record of a chunk that cannot be classified or validated adds
\* exactly one error entry and is in none of the four categorized sequences;
\* every other record adds no entry and is in exactly one sequence.
C13_OneErrorPerBadRecord ==
    Returned("validate_and_categorize_records") =>
        LET records == call.args.records
            out == call.out
        IN /\ \A i \in 1..Len(records) :
                 Cardinality({e \in 1..Len(out.errors) : out.errors[e][2] = i})
                    = IF i \in FailingRows(records) THEN 1 ELSE 0
           /\ Len(out.errors) = Cardinality(FailingRows(records))
           /\ \A table_type \in {"customer", "product", "order", "order_item"} :
                 out.categorized[ListOf(table_type)] = ValidOfKind(records, table_type)
\* A chunk of a record of no kind, an invalid customer and a valid customer.
C13_Witness ==
    /\ Returned("validate_and_categorize_records")
    /\ call.args.records = <<NoKind, CustBad, Cust1>>
    /\ RowTags(call.out.errors) = <<1, 2>>
    /\ Len(call.out.categorized.customers) = 1

\* An order item record with a positive quantity and unit price whose
\* subtotal is absent: the key is missing or its value is null.
SubtotalAbsent(record) ==
    /\ identify_table_type(record) = "order_item"
    /\ "unit_price" \in DOMAIN record
    /\ ToNumber(record.quantity).ok /\ ToNumber(record.quantity).val > 0
    /\ ToNumber(record.unit_price).ok /\ ToNumber(record.unit_price).val > 0
    /\ Get(record, "subtotal") = None

\* C16: an order item record with integer quantity q > 0 and unit price
\* p > 0 whose subtotal is absent (key missing, or null as an empty CSV cell
\* is decoded) validates, and its validated subtotal is q * p.
C16_AbsentSubtotalComputed ==
    Returned("validate_and_categorize_records") =>
        \A i \in 1..Len(call.args.records) :
            LET record == call.args.records[i]
            IN SubtotalAbsent(record) =>
                 /\ i \notin {call.out.errors[e][2] : e \in 1..Len(call.out.errors)}
                 /\ \E k \in 1..Len(call.out.categorized.order_items) :
                       call.out.categorized.order_items[k].subtotal
                          = N(ToNumber(record.quantity).val * ToNumber(record.unit_price).val)

\* C17: every classification or validation error entry carries the 1-based
\* row number of its record in the uploaded input, also for a record of the
\* second or a later chunk.
C17_RowNumberOfUpload ==
    Returned("validate_chunks") =>
        LET tags == Flatten([k \in 1..Len(call.out) |-> RowTags(call.out[k])])
        IN /\ Len(tags) = Cardinality(FailingRows(call.args.records))
           /\ \A e \in 1..Len(tags) : tags[e] \in FailingRows(call.args.records)
           /\ \A e, f \in 1..Len(tags) : e < f => tags[e] < tags[f]

\* The entry verify_relationships records for an order item whose order is
\* not visible.
OrderMissing(it) == <<"Order item", "Referenced order", it.order_id[2], "does not exist">>
Entries(errors) == {errors[i] : i \in 1..Len(errors)}
\* The validated order items of the chunk of p whose order_id is neither the
\* key of a validated order of the chunk nor of an order persisted before it.
OrphanItems(p) ==
    {i \in 1..Len(loader[p].categorized.order_items) :
        loader[p].categorized.order_items[i].order_id
            \notin Ids(loader[p].categorized.orders, "order_id")
                       \cup Ids(before[p].orders, "order_id")}

\* C14: for every validated order item whose order is neither in the same
\* chunk nor persisted, relationship verification records an error for the
\* item and no order item of the chunk is persisted or counted.
C14_OrphanItemRejected ==
    \A p \in Workers :
        (ChunkVerified(p) /\ ~VerifyFailed(p)) =>
            \A i \in OrphanItems(p) :
                /\ OrderMissing(loader[p].categorized.order_items[i]) \in Entries(loader[p].errors)
                /\ db.order_items = before[p].order_items
                /\ loader[p].counts.order_items = 0
                /\ req[p].created.order_items = 0
\* The order of the item arrives in the second chunk of the same upload: the
\* first chunk has been verified and is over.
C14_Witness ==
    \E p \in Workers :
        /\ ChunkOver(p) /\ ~VerifyFailed(p)
        /\ req[p].file.content.rows = <<Item1, Prod1, Ord1>>
        /\ req[p].chunk_no = 1
        /\ OrphanItems(p) # {}

\* The keys of the validated orders of the chunk of p that pass the customer
\* check.
CheckedOrderIds(p) ==
    LET orders == loader[p].categorized.orders
    IN {orders[i].order_id : i \in {j \in 1..Len(orders) : ~OrderDangles(p, orders[j])}}

\* C19: the order keys visible to the order items of a chunk are the
\* persisted ones and those of the chunk's orders that passed the customer
\* check: an item whose order_id matches only an order of the chunk that
\* failed the customer check gets its own referenced-order error.
C19_ItemOfRejectedOrderReported ==
    \A p \in Workers :
        (ChunkVerified(p) /\ ~VerifyFailed(p)) =>
            \A i \in 1..Len(loader[p].categorized.order_items) :
                LET it == loader[p].categorized.order_items[i]
                IN it.order_id \notin CheckedOrderIds(p) \cup Ids(before[p].orders, "order_id")
                      => OrderMissing(it) \in Entries(loader[p].errors)

NumberOfDatabaseErrors(errors) ==
    Cardinality({i \in 1..Len(errors) : errors[i][1] = "Database error"})

\* C20: a store failure during the transaction of a chunk contributes exactly
\* one entry to the error list the caller receives.
C20_OneAggregatedError ==
    \A p \in Workers :
        (req[p].pc = "done" /\ HasDatabaseError(loader[p].errors))
            => /\ req[p].response.status = 200
               /\ NumberOfDatabaseErrors(req[p].response.errors) = 1

\* The place of a store operation of load_data_batch in the order customers,
\* products, orders, order items (checks and inserts, then the flush), commit.
DependencyRank(kind) ==
    CASE kind = "customers" -> 1 [] kind = "products" -> 2 [] kind = "orders" -> 3
      [] kind = "order_items" -> 4 [] OTHER -> 5
OpRank(entry) == 2 * DependencyRank(entry[1]) - (IF entry[2] \in {"check", "insert"} THEN 1 ELSE 0)
NumberOfOps(log, kind, ops) ==
    Cardinality({i \in 1..Len(log) : log[i][1] = kind /\ log[i][2] \in ops})
\* All rows of a table have been checked or inserted and the table flushed.
TableDone(p, kind) ==
    \/ loader[p].categorized[kind] = <<>>
    \/ /\ NumberOfOps(loader[p].log, kind, {"check", "insert"}) = Len(loader[p].categorized[kind])
       /\ NumberOfOps(loader[p].log, kind, {"flush"}) = 1

\* C18: the store operations of one load_data_batch come in the order: the
\* customer checks and their flush, the product checks and their flush, the
\* order checks and their flush, the order item inserts and their flush, one
\* commit; nothing of a later table happens before the flush of an earlier one.
C18_DependencyOrder ==
    \A p \in Workers :
        LET log == loader[p].log
        IN /\ \A i, j \in 1..Len(log) : i < j => OpRank(log[i]) <= OpRank(log[j])
           /\ \A i \in 1..Len(log) : \A kind \in DOMAIN EmptyBatch :
                 DependencyRank(kind) < DependencyRank(log[i][1]) => TableDone(p, kind)
           /\ \A kind \in DOMAIN EmptyBatch : NumberOfOps(log, kind, {"flush"}) <= 1
           /\ NumberOfOps(log, "all", {"commit"}) <= 1
\* A chunk of an order and an order item has been loaded and committed.
C18_Witness ==
    \E p \in Workers :
        loader[p].log = << <<"orders", "check">>, <<"orders", "flush">>,
                           <<"order_items", "insert">>, <<"order_items", "flush">>,
                           <<"all", "commit">> >>

\* A row of the chunk is in the store: a row with its key, or the order item.
Present(store, kind, row) ==
    IF kind = "order_items" THEN \E i \in 1..Len(store[kind]) : store[kind][i] = row
    ELSE Existing(store, kind, row)
\* The existence lookup of the row raised and was recorded.
LookupRaised(p, kind, row) ==
    kind # "order_items"
    /\ \E i \in 1..Len(loader[p].errors) :
          loader[p].errors[i] = <<ErrorLabel(kind), row[KeyOf(kind)][2], "exception">>
\* The committed store only grows, and only at the commit of a chunk.
CommittedStays ==
    /\ \A kind \in DOMAIN EmptyBatch :
          /\ Len(db'[kind]) >= Len(db[kind])
          /\ SubSeq(db'[kind], 1, Len(db[kind])) = db[kind]
    /\ db' # db => \E p \in Workers : AtCommit(p)

LostRace(p) ==
    /\ req[p].pc = "load"
    /\ S("c1") \in Ids(session[p].new.customers, "customer_id")
    /\ S("c1") \in Ids(db.customers, "customer_id")
    /\ S("c2") \in Ids(session[p].new.customers \o session[p].flushed.customers, "customer_id")
\* An error entry of the customer with the given id
HasCustomerError(errors, id) ==
    \E i \in 1..Len(errors) : errors[i][1] = "Customer" /\ errors[i][2] = id

\* C21 as claimed: when the load of a worker that has lost the race for
\* customer c1 ends, the failure is recorded as an error of customer c1 and
\* the other customer of its chunk, c2, is committed.
C21_LoserKeepsOtherRows ==
    [][\A p \in Workers :
          (LostRace(p) /\ ChunkOver(p)')
              => /\ HasCustomerError(loader'[p].errors, "c1")
                 /\ S("c2") \in Ids(db'.customers, "customer_id")]_vars

\* The rows of a table after a step are the rows before it, unchanged and in
\* place, followed by added rows; an added customer, product or order has a
\* key the table did not hold.
RowsAdded(kind, old, new) ==
    /\ Len(new) >= Len(old)
    /\ SubSeq(new, 1, Len(old)) = old
    /\ UniqueColumn(kind) =>
          \A i \in (Len(old) + 1)..Len(new) : new[i][KeyOf(kind)] \notin Ids(old, KeyOf(kind))
\* The step is one of fetching, decoding, chunking, classifying, validating
\* or verifying by worker p.
BeforeLoadStep(p) ==
    req[p].pc \in {"idle", "chunks", "validate", "verify"} /\ req'[p] # req[p]
\* The step is the commit that ends a load_data_batch of worker p.
CommitStep(p) ==
    AtCommit(p) /\ req'[p].pc = "aggregate" /\ req'[p].chunks_loaded = req[p].chunks_loaded + 1

\* C22: the committed store changes only at the commit of load_data_batch and
\* only by added new rows: no step of decoding, chunking, classification,
\* validation or verification changes it, and no step changes or removes a
\* row that is committed.
C22_OnlyLoadAddsRows ==
    [][/\ \A kind \in DOMAIN EmptyBatch : RowsAdded(kind, db[kind], db'[kind])
       /\ db' # db => \E p \in Workers : CommitStep(p)
       /\ \A p \in Workers : BeforeLoadStep(p) => db' = db]_vars
\* A worker has committed a chunk of a product and a customer onto a store
\* that held the customer already: the product is added, the customer kept.
C22_Witness ==
    \E p \in Workers :
        /\ req[p].pc = "aggregate"
        /\ req[p].created = [ZeroCounts EXCEPT !.products = 1]
        /\ Len(loader[p].categorized.customers) = 1
        /\ before[p].customers # <<>>
        /\ db = [before[p] EXCEPT !.products = Append(@, loader[p].categorized.products[1])]

\* The stripped names of the columns of a CSV header
HeaderNames(header) == {Strip(header[i]) : i \in 1..Len(header)}

\* C23: every record decoded from one CSV text has the stripped header names
\* as its keys (an empty or missing cell is a None value, not a missing key),
\* so identify_table_type gives every record of the text the same result.
C23_OneKindPerCsv ==
    Returned("parse_csv_streaming") =>
        /\ \A i \in 1..Len(call.out.records) :
              DOMAIN call.out.records[i] = HeaderNames(call.args.content.header)
        /\ \A i, j \in 1..Len(call.out.types) : call.out.types[i] = call.out.types[j]
\* Two records have been decoded from a text whose first row has an empty
\* order_id cell and whose second row has it filled.
C23_Witness ==
    /\ Returned("parse_csv_streaming")
    /\ Len(call.out.records) = 2
    /\ "order_id" \in DOMAIN call.out.records[1]
    /\ call.out.records[1].order_id = None
    /\ call.out.records[2].order_id # None
====
